---- MODULE Spec2Model ----
(***************************************************************************)
(* User-account CRUD service (FastAPI + SQLAlchemy + pydantic v2).         *)
(*                                                                         *)
(* State: the DatabaseManager singleton (app/database/database.py), the    *)
(* "users" table (app/models/user.py) and, for every request task, the     *)
(* position of its handler (app/routers/user.py) inside the unit of work   *)
(* that get_db handed to it.  Strings are sequences of one-character       *)
(* strings so that the validators of app/schemas/user.py are computed on   *)
(* the characters, as the code computes them.                              *)
(***************************************************************************)
EXTENDS Integers, Sequences, FiniteSets, TLC

(* ------------------------------------------------------------------ *)
(* Bounds of the model                                                 *)
(* ------------------------------------------------------------------ *)
\* number of INSERTs the table's id sequence may hand out
MaxId == 2
\* number of writes (INSERT or UPDATE) that read the database clock
MaxClock == 3

Tasks == {"t1", "t2"}
\* the contexts requests are started from: the server's own ("root") and the
\* one of a test function ("test"); every request task runs in a copy
Parents == {"root", "test"}
Contexts == Tasks \cup Parents

(* ------------------------------------------------------------------ *)
(* Field constraints declared in app/schemas/user.py                   *)
(* ------------------------------------------------------------------ *)
MinNameLen == 2
MaxNameLen == 128
MinPasswordLen == 8
MaxPasswordLen == 128

(* ------------------------------------------------------------------ *)
(* Characters                                                          *)
(* ------------------------------------------------------------------ *)
Lowers == {"a", "b", "c", "d", "o", "p", "r", "s", "w", "x"}
Uppers == {"A", "C", "P", "U", "X"}
Digits == {"0", "1"}

\* str.isalpha(), str.isdigit(), str.isupper() on one character
IsAlphaChar(c) == c \in Lowers \cup Uppers
IsDigitChar(c) == c \in Digits
IsUpperChar(c) == c \in Uppers

\* str.lower() on one character
LowerChar(c) ==
    CASE c = "A" -> "a"
      [] c = "C" -> "c"
      [] c = "P" -> "p"
      [] c = "U" -> "u"
      [] c = "X" -> "x"
      [] OTHER -> c

Repeat(c, n) == [i \in 1..n |-> c]

(* ------------------------------------------------------------------ *)
(* Payload fields: a JSON key is absent, null or carries a string      *)
(* ------------------------------------------------------------------ *)
Absent == [tag |-> "absent", v |-> <<>>]
Null == [tag |-> "null", v |-> <<>>]
Val(s) == [tag |-> "val", v |-> s]

\* validate_name: "if not value.isalpha(): raise ValueError"
\* (str.isalpha() is False for the empty string)
validate_name(value) ==
    /\ Len(value) > 0
    /\ \A i \in 1..Len(value) : IsAlphaChar(value[i])

\* validate_password: at least one digit, at least one uppercase letter
validate_password(value) ==
    /\ \E i \in 1..Len(value) : IsDigitChar(value[i])
    /\ \E i \in 1..Len(value) : IsUpperChar(value[i])

\* Field(min_length=.., max_length=..)
LengthOk(value, lo, hi) == Len(value) >= lo /\ Len(value) <= hi

\* EmailStr: exactly one "@", a non-empty local part, a domain with a dot
\* that neither starts nor ends with it (email-validator, no deliverability)
AtPositions(value) == {i \in 1..Len(value) : value[i] = "@"}

EmailSyntaxOk(value) ==
    /\ Cardinality(AtPositions(value)) = 1
    /\ LET at == CHOOSE i \in AtPositions(value) : TRUE
       IN  /\ at > 1
           /\ at + 1 < Len(value)
           /\ value[at + 1] # "."
           /\ value[Len(value)] # "."
           /\ \E i \in (at + 1)..Len(value) : value[i] = "."

\* EmailStr returns the normalized address: the domain part is lower-cased,
\* the local part is kept as typed
NormalizeEmail(value) ==
    LET at == CHOOSE i \in AtPositions(value) : TRUE
    IN  [i \in 1..Len(value) |-> IF i > at THEN LowerChar(value[i]) ELSE value[i]]

EmailStr(value) == NormalizeEmail(value)


(* ------------------------------------------------------------------ *)
(* pydantic models (app/schemas/user.py), pydantic v2 semantics:       *)
(* every field is validated in declaration order; a ValueError is      *)
(* collected as a field error, any other exception leaves validation   *)
(* at once.  A field declared Optional[T] = Field(...) has no default, *)
(* so it is required and may be null.                                  *)
(* ------------------------------------------------------------------ *)
\* outcome of one field: "ok", "error" (collected) or "crash" (escapes)
CreateNameField(f) ==
    IF f.tag # "val" THEN "error"
    ELSE IF ~LengthOk(f.v, MinNameLen, MaxNameLen) THEN "error"
    ELSE IF validate_name(f.v) THEN "ok" ELSE "error"

CreateEmailField(f) ==
    IF f.tag # "val" THEN "error"
    ELSE IF EmailSyntaxOk(f.v) THEN "ok" ELSE "error"

CreatePasswordField(f) ==
    IF f.tag # "val" THEN "error"
    ELSE IF ~LengthOk(f.v, MinPasswordLen, MaxPasswordLen) THEN "error"
    ELSE IF validate_password(f.v) THEN "ok" ELSE "error"

\* Optional[str] = Field(min_length=2, max_length=128) with the "after"
\* validator validate_name: null passes the inner Optional[str] and the
\* validator then evaluates None.isalpha(), an AttributeError
UpdateNameField(f) ==
    IF f.tag = "absent" THEN "error"
    ELSE IF f.tag = "null" THEN "crash"
    ELSE CreateNameField(f)

\* Optional[EmailStr]: required, null allowed, no custom validator
UpdateEmailField(f) ==
    IF f.tag = "absent" THEN "error"
    ELSE IF f.tag = "null" THEN "ok"
    ELSE CreateEmailField(f)

\* validate_password iterates over the value: iterating None is a TypeError
UpdatePasswordField(f) ==
    IF f.tag = "absent" THEN "error"
    ELSE IF f.tag = "null" THEN "crash"
    ELSE CreatePasswordField(f)

Collect(outcomes) ==
    IF "crash" \in outcomes THEN "crash"
    ELSE IF "error" \in outcomes THEN "invalid"
    ELSE "ok"

\* UserCreate validation of a JSON body
UserCreateValidate(p) ==
    Collect({CreateNameField(p.first_name), CreateNameField(p.last_name),
             CreateEmailField(p.email), CreatePasswordField(p.password)})

\* UserUpdate validation of a JSON body
UserUpdateValidate(p) ==
    Collect({UpdateNameField(p.first_name), UpdateNameField(p.last_name),
             UpdateEmailField(p.email), UpdatePasswordField(p.password)})

\* the validated model: strings as given, the email normalized, None as Null
ParsedEmail(f) == IF f.tag = "val" THEN Val(EmailStr(f.v)) ELSE Null

UserCreate(p) ==
    [first_name |-> p.first_name, last_name |-> p.last_name,
     email |-> ParsedEmail(p.email), password |-> p.password]

UserUpdate(p) ==
    [first_name |-> p.first_name, last_name |-> p.last_name,
     email |-> ParsedEmail(p.email), password |-> p.password]

\* Python truthiness of an Optional[str] attribute ("if user_update.email:")
Truthy(f) == f.tag = "val" /\ Len(f.v) > 0

\* a response that serializes the whole row (no response_model)
UserReadAllColumns(row) == row

\* UserRead (response_model, from_attributes): the six declared fields only
UserRead(row) ==
    [id |-> row.id, first_name |-> row.first_name, last_name |-> row.last_name,
     email |-> row.email, created_at |-> row.created_at,
     updated_at |-> row.updated_at]

(* ------------------------------------------------------------------ *)
(* User model (app/models/user.py)                                     *)
(* ------------------------------------------------------------------ *)
\* bcrypt.gensalt(): a salt not used before; the n-th write draws salt n
gensalt(n) == [salt |-> n]

\* bcrypt.hashpw(plain, salt): determined by the pair, one-way
hashpw(plain, salt) == [plain |-> plain, salt |-> salt]

\* a set_password that stores the new hash and keeps the old salt
set_password_hash_only(row, plain, n) ==
    [row EXCEPT !.password = hashpw(plain, gensalt(n))]

\* User.set_password: salt and hash written together
set_password(row, plain, n) ==
    [row EXCEPT !.salt = gensalt(n), !.password = hashpw(plain, gensalt(n))]


(* ------------------------------------------------------------------ *)
(* Request inputs                                                      *)
(* ------------------------------------------------------------------ *)
N1 == <<"A", "b">>
N2 == <<"C", "d">>
E1 == <<"a", "@", "x", ".", "c">>
E1U == <<"a", "@", "X", ".", "c">>
E2 == <<"b", "@", "x", ".", "c">>
PW1 == <<"P", "a", "s", "s", "w", "0", "r", "d">>
PW2 == <<"P", "a", "s", "s", "w", "o", "r", "d", "1">>

Body(fn, ln, em, pw) ==
    [first_name |-> fn, last_name |-> ln, email |-> em, password |-> pw]

NoBody == Body(Absent, Absent, Absent, Absent)

\* bodies that satisfy every declared constraint of UserCreate
GoodCreateBodies == {Body(Val(N1), Val(N2), Val(e), Val(PW1)) : e \in {E1, E1U, E2}}

\* bodies that break a declared constraint, or leave a required key out
BadCreateBodies ==
    {Body(Val(<<"U">>), Val(N2), Val(E1), Val(<<"p", "a", "s", "s">>)),
     Body(Val(<<"U", "1">>), Val(N2), Val(E1), Val(PW1)),
     Body(Val(N1), Val(Repeat("a", MaxNameLen + 1)), Val(E1), Val(PW1)),
     Body(Val(N1), Val(N2), Val(<<"a", "x">>), Val(PW1)),
     Body(Val(N1), Val(N2), Val(E1), Val(<<"P", "a", "s", "s", "w", "o", "r", "d">>)),
     Body(Val(N1), Val(N2), Val(E1), Val(<<"p", "a", "s", "s", "w", "0", "r", "d">>)),
     Body(Val(N1), Val(N2), Val(E1), Val(Repeat("A", MaxPasswordLen) \o <<"1">>)),
     Body(Val(N1), Val(N2), Val(E1), Absent),
     Body(Null, Val(N2), Val(E1), Val(PW1))}

\* every key present: names and password strings, email a string or null
FullUpdateBodies == {Body(Val(N2), Val(N1), e, Val(PW2)) : e \in {Null, Val(E1), Val(E2)}}

\* only some of the keys present (the others absent or null)
PartialUpdateBodies ==
    {Body(Absent, Absent, Val(E2), Absent),
     Body(Val(N2), Absent, Absent, Absent),
     Body(Null, Null, Val(E2), Null),
     Body(Absent, Absent, Absent, Val(PW2))}

BadUpdateBodies ==
    {Body(Val(<<"U">>), Val(N1), Val(E1), Val(PW2)),
     Body(Val(N2), Val(N1), Val(<<"a", "x">>), Val(PW2)),
     Body(Val(N2), Val(N1), Val(E1), Val(<<"p", "a", "s", "s">>))}

CreateBodies == GoodCreateBodies \cup BadCreateBodies
UpdateBodies == FullUpdateBodies \cup PartialUpdateBodies \cup BadUpdateBodies

\* identities a client may name: every one the sequence can hand out, and one more
Ids == 1..(MaxId + 1)

Requests ==
    {[op |-> "create", user_id |-> 0, payload |-> b] : b \in CreateBodies}
    \cup {[op |-> "list", user_id |-> 0, payload |-> NoBody]}
    \cup {[op |-> o, user_id |-> i, payload |-> NoBody] : o \in {"get", "delete"}, i \in Ids}
    \cup {[op |-> "update", user_id |-> i, payload |-> b] : i \in Ids, b \in UpdateBodies}

NoRequest == [op |-> "none", user_id |-> 0, payload |-> NoBody]

(* ------------------------------------------------------------------ *)
(* Sessions and responses                                              *)
(* ------------------------------------------------------------------ *)
NoSession == [kind |-> "none", owner |-> "none"]
\* a registry that is not scoped: the same session whatever the task
PooledUnscoped(t) == [kind |-> "pooled", owner |-> "registry"]
\* async_scoped_session(scopefunc=asyncio.current_task): one per task
Pooled(t) == [kind |-> "pooled", owner |-> t]
\* a session built by a test harness and handed to set_test_session
Override == [kind |-> "override", owner |-> "harness"]
\* the session the code running in context c hands to set_test_session
TestSession(c) == [kind |-> "override", owner |-> c]

\* a response: the status, the body (Read projections), the exception that
\* caused it (exc) and how it left the handler (raised): "none" when the
\* handler returned or never ran, "HTTPException" when the handler raised one,
\* "unhandled" when an exception nothing caught went through
NoResponse == [status |-> 0, body |-> <<>>, exc |-> "none", raised |-> "none"]
Returned(status, body) ==
    [status |-> status, body |-> body, exc |-> "none", raised |-> "none"]
HTTPException(status, exc) ==
    [status |-> status, body |-> <<>>, exc |-> exc, raised |-> "HTTPException"]
\* the server answers an unhandled exception with 500
Unhandled(exc) ==
    [status |-> 500, body |-> <<>>, exc |-> exc, raised |-> "unhandled"]
\* FastAPI answers a body that fails validation with 422; the handler never runs
RequestValidationError ==
    [status |-> 422, body |-> <<>>, exc |-> "RequestValidationError", raised |-> "none"]

(* ------------------------------------------------------------------ *)
(* State                                                               *)
(* ------------------------------------------------------------------ *)
VARIABLES
    engine,                \* DatabaseManager.engine
    session_maker,         \* DatabaseManager.session_maker
    session,               \* DatabaseManager.session (the scoped registry)
    test_session_context,  \* DatabaseManager._test_session_context, per context
    lifecycle,             \* Uninitialized / Ready / Closed, as the calls succeeded
    manager_result,        \* how the last init_db() or close() ended
    users,                 \* rows of table "users", in the order a scan returns them
    next_id,               \* next value of the id sequence
    now,                   \* database clock behind func.now()
    origin,                \* per identity: the body it was created from, and
                           \* whether an UPDATE or DELETE has reached it since
    pc,                    \* per task: position of its request
    req,                   \* per task: the request being served
    user,                  \* per task: the handler's User object: its id (0: None)
                           \* and the attributes assigned a value other than the loaded one
    yielded,               \* per task: the session get_db yielded to the handler
    resp,                  \* per task: the response being sent
    log,                   \* per task: rollback()/close() calls made by get_db
    stmts                  \* per task: statements the request sent to the store

manager_vars == <<engine, session_maker, session, lifecycle, manager_result>>
store_vars == <<users, next_id, now, origin>>
task_vars == <<pc, req, user, yielded, resp, log, stmts>>
vars == <<engine, session_maker, session, test_session_context, lifecycle,
          manager_result, users, next_id, now, origin,
          pc, req, user, yielded, resp, log, stmts>>

NoUser == [id |-> 0, dirty |-> {}]
NoOrigin == [payload |-> NoBody, touched |-> FALSE]

\* DatabaseManager.__init__ (and an empty table)
Init ==
    /\ engine = "AsyncEngine"
    /\ session_maker = "None"
    /\ session = "None"
    /\ test_session_context = [c \in Contexts |-> NoSession]
    /\ lifecycle = "Uninitialized"
    /\ manager_result = "none"
    /\ users = <<>>
    /\ next_id = 1
    /\ now = 0
    /\ origin = [i \in Ids |-> NoOrigin]
    /\ pc = [t \in Tasks |-> "idle"]
    /\ req = [t \in Tasks |-> NoRequest]
    /\ user = [t \in Tasks |-> NoUser]
    /\ yielded = [t \in Tasks |-> NoSession]
    /\ resp = [t \in Tasks |-> NoResponse]
    /\ log = [t \in Tasks |-> <<>>]
    /\ stmts = [t \in Tasks |-> 0]

(* ------------------------------------------------------------------ *)
(* Table "users"                                                       *)
(* ------------------------------------------------------------------ *)
RowIds == {users[i].id : i \in 1..Len(users)}
RowIndex(id) == CHOOSE i \in 1..Len(users) : users[i].id = id
RowOf(id) == users[RowIndex(id)]
RemoveAt(s, i) == SubSeq(s, 1, i - 1) \o SubSeq(s, i + 1, Len(s))

\* the SELECT without its WHERE clause: the first row, whatever its id
SelectByIdNoWhere(id) == IF Len(users) > 0 THEN <<users[1]>> ELSE <<>>

\* select(User).where(User.id == user_id) ... scalar_one_or_none():
\* the row as a sequence of at most one element (empty: None)
SelectById(id) == IF id \in RowIds THEN <<RowOf(id)>> ELSE <<>>

\* the table without its unique index on email
EmailTakenNoIndex(email, id) == FALSE

\* unique=True on users.email: a row other than `id` holds `email`
EmailTaken(email, id) ==
    \E i \in 1..Len(users) : users[i].email = email /\ users[i].id # id

\* an id computed as the largest stored id plus one
AllocateIdMaxPlusOne ==
    IF RowIds = {} THEN 1
    ELSE (CHOOSE m \in RowIds : \A i \in RowIds : i <= m) + 1

\* mapped_column(primary_key=True): the id comes from the table's sequence
AllocateId == next_id

AllIdle == \A t \in Tasks : pc[t] = "idle"

(* ------------------------------------------------------------------ *)
(* DatabaseManager (app/database/database.py); main.py calls init_db   *)
(* at startup and close at shutdown, when no request is being served   *)
(* ------------------------------------------------------------------ *)
\* init_db: all of it succeeds, or create_async_engine raises (no
\* DATABASE_URL) before anything is assigned, or create_all raises after
\* engine, session_maker and session were assigned
init_db ==
    /\ AllIdle
    /\ \/ /\ engine' = "engine"
          /\ session_maker' = "sessionmaker"
          /\ session' = "scoped_session"
          /\ manager_result' = "init_db returned"
          /\ lifecycle' = "Ready"
       \/ /\ manager_result' = "init_db raised"
          /\ UNCHANGED <<engine, session_maker, session, lifecycle>>
       \/ /\ engine' = "engine"
          /\ session_maker' = "sessionmaker"
          /\ session' = "scoped_session"
          /\ manager_result' = "init_db raised"
          /\ UNCHANGED lifecycle
    /\ UNCHANGED <<test_session_context, store_vars, task_vars>>

\* close: "if self.engine is not None" holds in every state (engine starts as
\* the class AsyncEngine); AsyncEngine.dispose() on the class is a TypeError,
\* dispose() on an engine succeeds, also on one already disposed
close ==
    /\ AllIdle
    /\ IF engine = "None"
         THEN /\ manager_result' = "close raised Exception"
              /\ UNCHANGED <<engine, lifecycle>>
         ELSE IF engine = "AsyncEngine"
         THEN /\ manager_result' = "close raised TypeError"
              /\ UNCHANGED <<engine, lifecycle>>
         ELSE /\ manager_result' = "close returned"
              /\ engine' = "disposed"
              /\ lifecycle' = IF lifecycle = "Ready" THEN "Closed" ELSE lifecycle
    /\ UNCHANGED <<session_maker, session, test_session_context, store_vars, task_vars>>

\* ContextVar.set reaching every context, as a module-level global would
set_test_session_everywhere(c, s) ==
    /\ test_session_context[c] # s
    /\ test_session_context' = [d \in Contexts |-> s]
    /\ UNCHANGED <<manager_vars, store_vars, task_vars>>

\* set_test_session / reset_test_session: ContextVar.set in the caller's context
set_test_session(c, s) ==
    /\ test_session_context[c] # s
    /\ test_session_context' = [test_session_context EXCEPT ![c] = s]
    /\ UNCHANGED <<manager_vars, store_vars, task_vars>>

reset_test_session(c) ==
    /\ test_session_context[c] # NoSession
    /\ test_session_context' = [test_session_context EXCEPT ![c] = NoSession]
    /\ UNCHANGED <<manager_vars, store_vars, task_vars>>

(* ------------------------------------------------------------------ *)
(* A request: task creation, get_db up to its yield, body validation   *)
(* (FastAPI solves the dependency, then validates the body, with no    *)
(* suspension point in between)                                        *)
(* ------------------------------------------------------------------ *)
IsWrite(r) == r.op \in {"create", "update"}
InFlight(op) == Cardinality({t \in Tasks : req[t].op = op /\ pc[t] \in {"fetch", "commit"}})

\* the counters stay within the bounds: a write is accepted only while the
\* writes already under way leave room for it
WithinBounds(r) ==
    /\ IsWrite(r) => now + InFlight("create") + InFlight("update") < MaxClock
    /\ r.op = "create" => (next_id - 1) + InFlight("create") < MaxId

Validate(r) ==
    CASE r.op = "create" -> UserCreateValidate(r.payload)
      [] r.op = "update" -> UserUpdateValidate(r.payload)
      [] OTHER -> "ok"

\* the exception of the first validator that meets None: validate_name
\* (None.isalpha()) before validate_password (iterating None)
ValidatorCrash(p) ==
    IF p.first_name.tag = "null" \/ p.last_name.tag = "null"
      THEN "AttributeError" ELSE "TypeError"

FirstStep(r) == IF r.op = "create" THEN "commit" ELSE "fetch"

\* what get_db yields: "if test_session := ...get(): yield test_session
\* else: yield session"
GetDbYield(t, test_session) ==
    IF test_session # NoSession THEN test_session ELSE Pooled(t)

\* a request started from context c and served by task t
RequestFrom(c, t, r) ==
    /\ pc[t] = "idle"
    /\ WithinBounds(r)
    /\ req' = [req EXCEPT ![t] = r]
    \* the task runs in a copy of the context it was created from
    /\ test_session_context' =
          [test_session_context EXCEPT ![t] = test_session_context[c]]
    /\ IF session = "None"
         \* "session = dbmanager.session()": calling None is a TypeError
         THEN /\ resp' = [resp EXCEPT ![t] = Unhandled("TypeError")]
              /\ pc' = [pc EXCEPT ![t] = "done"]
              /\ UNCHANGED yielded
         ELSE /\ yielded' = [yielded EXCEPT ![t] =
                               GetDbYield(t, test_session_context[c])]
              /\ CASE Validate(r) = "ok" ->
                        /\ pc' = [pc EXCEPT ![t] = FirstStep(r)]
                        /\ UNCHANGED resp
                   [] Validate(r) = "invalid" ->
                        /\ pc' = [pc EXCEPT ![t] = "exit"]
                        /\ resp' = [resp EXCEPT ![t] = RequestValidationError]
                   [] OTHER ->
                        /\ pc' = [pc EXCEPT ![t] = "exit"]
                        /\ resp' = [resp EXCEPT ![t] = Unhandled(ValidatorCrash(r.payload))]
    /\ UNCHANGED <<manager_vars, store_vars, user, log, stmts>>

\* a request the server receives: its task is created from the server's context
Request(t, r) == RequestFrom("root", t, r)

(* ------------------------------------------------------------------ *)
(* Handlers (app/routers/user.py), one action per await                *)
(* ------------------------------------------------------------------ *)
At(t, op, where) == pc[t] = where /\ req[t].op = op

\* the handler ends: the response is fixed, get_db's cleanup comes next
Respond(t, r) ==
    /\ resp' = [resp EXCEPT ![t] = r]
    /\ pc' = [pc EXCEPT ![t] = "exit"]

Sent(t) == stmts' = [stmts EXCEPT ![t] = @ + 1]

\* the except clauses of create_user (lines 49-52), update_user (lines
\* 148-153) and delete_user (lines 185-186): exception class to status
create_user_except(exc) ==
    IF exc = "IntegrityError" THEN HTTPException(400, exc) ELSE HTTPException(500, exc)

update_user_except(exc) ==
    IF exc = "ValueError" THEN HTTPException(422, exc)
    ELSE IF exc = "IntegrityError" THEN HTTPException(400, exc)
    ELSE HTTPException(500, exc)

delete_user_except(exc) == HTTPException(500, exc)

\* "if user is None: raise HTTPException(404)" / "if len(users) == 0: ..."
NotFound == HTTPException(404, "HTTPException")

\* the row INSERTed for a validated UserCreate: the id from the sequence,
\* created_at and updated_at from the clock, salt and hash from set_password
NewUser(user_create, id, clock) ==
    set_password([id |-> id,
                  first_name |-> user_create.first_name.v,
                  last_name |-> user_create.last_name.v,
                  email |-> user_create.email.v,
                  salt |-> gensalt(0),
                  password |-> hashpw(<<>>, gensalt(0)),
                  created_at |-> clock,
                  updated_at |-> clock],
                 user_create.password.v, clock)

\* create_user, lines 37-47: build the user, set_password, add, commit
create_user_commit(t) ==
    /\ At(t, "create", "commit")
    /\ Sent(t)
    /\ LET user_create == UserCreate(req[t].payload)
       IN  \/ \* a storage failure other than a constraint violation
              /\ Respond(t, create_user_except("SQLAlchemyError"))
              /\ UNCHANGED <<store_vars, user>>
           \/ \* the unique index on email refuses the INSERT
              /\ EmailTaken(user_create.email.v, 0)
              /\ Respond(t, create_user_except("IntegrityError"))
              /\ UNCHANGED <<store_vars, user>>
           \/ /\ ~EmailTaken(user_create.email.v, 0)
              /\ users' = Append(users, NewUser(user_create, AllocateId, now + 1))
              /\ next_id' = next_id + 1
              /\ now' = now + 1
              /\ origin' = [origin EXCEPT ![AllocateId] =
                                [payload |-> req[t].payload, touched |-> FALSE]]
              /\ user' = [user EXCEPT ![t] = [id |-> AllocateId, dirty |-> {}]]
              /\ pc' = [pc EXCEPT ![t] = "refresh"]
              /\ UNCHANGED resp
    /\ UNCHANGED <<manager_vars, test_session_context, req, yielded, log>>

\* session.refresh(user), create_user line 48: reload the row by primary key;
\* a row that is gone is an InvalidRequestError, which is a SQLAlchemyError
create_user_refresh(t) ==
    /\ At(t, "create", "refresh")
    /\ Sent(t)
    /\ \/ Respond(t, create_user_except("SQLAlchemyError"))
       \/ /\ SelectById(user[t].id) = <<>>
          /\ Respond(t, create_user_except("SQLAlchemyError"))
       \/ /\ SelectById(user[t].id) # <<>>
          /\ Respond(t, Returned(201, <<UserRead(SelectById(user[t].id)[1])>>))
    /\ UNCHANGED <<manager_vars, test_session_context, store_vars,
                   req, user, yielded, log>>

\* get_users without its emptiness check
get_users_response_unchecked(rows) ==
    Returned(200, [i \in 1..Len(rows) |-> UserRead(rows[i])])

\* the body of get_users, lines 75-78
get_users_response(rows) ==
    IF Len(rows) = 0 THEN NotFound
    ELSE Returned(200, [i \in 1..Len(rows) |-> UserRead(rows[i])])

\* get_users, lines 72-78: the SELECT has no ORDER BY and stands outside any try
get_users(t) ==
    /\ At(t, "list", "fetch")
    /\ Sent(t)
    /\ \/ Respond(t, Unhandled("SQLAlchemyError"))
       \/ Respond(t, get_users_response(users))
    /\ UNCHANGED <<manager_vars, test_session_context, store_vars,
                   req, user, yielded, log>>

\* get_user, lines 97-103
get_user(t) ==
    /\ At(t, "get", "fetch")
    /\ Sent(t)
    /\ \/ Respond(t, Unhandled("SQLAlchemyError"))
       \/ /\ SelectById(req[t].user_id) = <<>>
          /\ Respond(t, NotFound)
       \/ /\ SelectById(req[t].user_id) # <<>>
          /\ Respond(t, Returned(200, <<UserRead(SelectById(req[t].user_id)[1])>>))
    /\ UNCHANGED <<manager_vars, test_session_context, store_vars,
                   req, user, yielded, log>>

\* the attribute assignments of update_user, lines 137-144, against the row
\* just loaded: an attribute set to the value it already has is no net change;
\* set_password always draws a new salt
Assigned(user_update, row) ==
    {a \in {"email", "first_name", "last_name"} :
        Truthy(user_update[a]) /\ user_update[a].v # row[a]}
    \cup (IF Truthy(user_update.password) THEN {"password"} ELSE {})

\* update_user, lines 130-144: the SELECT (outside the try), then the assignments
update_user_fetch(t) ==
    /\ At(t, "update", "fetch")
    /\ Sent(t)
    /\ \/ /\ Respond(t, Unhandled("SQLAlchemyError"))
          /\ UNCHANGED user
       \/ /\ SelectById(req[t].user_id) = <<>>
          /\ Respond(t, NotFound)
          /\ UNCHANGED user
       \/ /\ SelectById(req[t].user_id) # <<>>
          /\ user' = [user EXCEPT ![t] =
                        [id |-> SelectById(req[t].user_id)[1].id,
                         dirty |-> Assigned(UserUpdate(req[t].payload),
                                            SelectById(req[t].user_id)[1])]]
          /\ pc' = [pc EXCEPT ![t] = "commit"]
          /\ UNCHANGED resp
    /\ UNCHANGED <<manager_vars, test_session_context, store_vars,
                   req, yielded, log>>

\* the UPDATE that the flush emits for the attributes with a net change;
\* onupdate=func.now() sets updated_at whenever an UPDATE is emitted
Updated(row, user_update, attrs, clock) ==
    LET r1 == IF "email" \in attrs THEN [row EXCEPT !.email = user_update.email.v] ELSE row
        r2 == IF "first_name" \in attrs
                THEN [r1 EXCEPT !.first_name = user_update.first_name.v] ELSE r1
        r3 == IF "last_name" \in attrs
                THEN [r2 EXCEPT !.last_name = user_update.last_name.v] ELSE r2
        r4 == IF "password" \in attrs
                THEN set_password(r3, user_update.password.v, clock) ELSE r3
    IN  IF attrs = {} THEN row ELSE [r4 EXCEPT !.updated_at = clock]

\* where a scan without ORDER BY finds the new version of an updated row:
\* in the place of the old one, or behind every other row
Rewritten(rows, i, row, place) ==
    IF place = "in_place" THEN [rows EXCEPT ![i] = row]
    ELSE Append(RemoveAt(rows, i), row)

\* update_user, line 146: session.commit() flushes the UPDATE and commits
update_user_commit(t) ==
    /\ At(t, "update", "commit")
    /\ Sent(t)
    /\ LET user_update == UserUpdate(req[t].payload)
           attrs == user[t].dirty
           id == user[t].id
       IN  \/ \* a storage failure other than a constraint violation
              /\ Respond(t, update_user_except("SQLAlchemyError"))
              /\ UNCHANGED store_vars
           \/ \* the row is gone: the UPDATE matches no row, StaleDataError,
              \* which is a SQLAlchemyError
              /\ attrs # {} /\ id \notin RowIds
              /\ Respond(t, update_user_except("SQLAlchemyError"))
              /\ UNCHANGED store_vars
           \/ \* the unique index on email refuses the UPDATE
              /\ attrs # {} /\ id \in RowIds
              /\ "email" \in attrs /\ EmailTaken(user_update.email.v, id)
              /\ Respond(t, update_user_except("IntegrityError"))
              /\ UNCHANGED store_vars
           \/ /\ attrs # {} => id \in RowIds
              /\ "email" \in attrs => ~EmailTaken(user_update.email.v, id)
              /\ \E place \in {"in_place", "at_end"} :
                    users' = IF attrs = {} THEN users
                             ELSE Rewritten(users, RowIndex(id),
                                    Updated(RowOf(id), user_update, attrs, now + 1), place)
              /\ now' = IF attrs = {} THEN now ELSE now + 1
              /\ origin' = IF attrs = {} THEN origin
                           ELSE [origin EXCEPT ![id].touched = TRUE]
              /\ pc' = [pc EXCEPT ![t] = "refresh"]
              /\ UNCHANGED <<next_id, resp>>
    /\ UNCHANGED <<manager_vars, test_session_context, req, user, yielded, log>>

\* session.refresh(user), update_user line 147
update_user_refresh(t) ==
    /\ At(t, "update", "refresh")
    /\ Sent(t)
    /\ \/ Respond(t, update_user_except("SQLAlchemyError"))
       \/ /\ SelectById(user[t].id) = <<>>
          /\ Respond(t, update_user_except("SQLAlchemyError"))
       \/ /\ SelectById(user[t].id) # <<>>
          /\ Respond(t, Returned(200, <<UserRead(SelectById(user[t].id)[1])>>))
    /\ UNCHANGED <<manager_vars, test_session_context, store_vars,
                   req, user, yielded, log>>

\* delete_user, lines 176-180: the SELECT, outside the try
delete_user_fetch(t) ==
    /\ At(t, "delete", "fetch")
    /\ Sent(t)
    /\ \/ /\ Respond(t, Unhandled("SQLAlchemyError"))
          /\ UNCHANGED user
       \/ /\ SelectById(req[t].user_id) = <<>>
          /\ Respond(t, NotFound)
          /\ UNCHANGED user
       \/ /\ SelectById(req[t].user_id) # <<>>
          /\ user' = [user EXCEPT ![t] =
                        [id |-> SelectById(req[t].user_id)[1].id, dirty |-> {}]]
          /\ pc' = [pc EXCEPT ![t] = "commit"]
          /\ UNCHANGED resp
    /\ UNCHANGED <<manager_vars, test_session_context, store_vars,
                   req, yielded, log>>

\* DELETE FROM users WHERE id = ...: a DELETE that matches no row is a
\* warning only
Deleted(rows, id) == SelectSeq(rows, LAMBDA row : row.id # id)

\* delete_user, lines 182-188: session.delete(user), session.commit()
delete_user_commit(t) ==
    /\ At(t, "delete", "commit")
    /\ Sent(t)
    /\ \/ /\ Respond(t, delete_user_except("SQLAlchemyError"))
          /\ UNCHANGED store_vars
       \/ /\ users' = Deleted(users, user[t].id)
          /\ origin' = [origin EXCEPT ![user[t].id].touched = TRUE]
          /\ Respond(t, Returned(204, <<>>))
          /\ UNCHANGED <<next_id, now>>
    /\ UNCHANGED <<manager_vars, test_session_context, req, user, yielded, log>>

(* ------------------------------------------------------------------ *)
(* get_db after its yield (app/database/database.py, lines 97-101)     *)
(* ------------------------------------------------------------------ *)
\* an exception travels from the handler into the generator: the
\* HTTPException of a domain error, or an exception nothing caught
Raised(r) == r.raised # "none"

\* the session the except and finally clauses act on: the local `session`,
\* which is dbmanager.session(), whatever was yielded
Released(t) == Pooled(t)

Call(name, s) == [call |-> name, on |-> s]

get_db_exit(t) ==
    /\ pc[t] = "exit"
    /\ log' = [log EXCEPT ![t] =
                 IF Raised(resp[t])
                   THEN <<Call("rollback", Released(t)), Call("close", Released(t))>>
                   ELSE <<Call("close", Released(t))>>]
    /\ pc' = [pc EXCEPT ![t] = "done"]
    /\ UNCHANGED <<manager_vars, test_session_context, store_vars,
                   req, user, yielded, resp, stmts>>

\* the response is out and the task, with its context, is gone
finish(t) ==
    /\ pc[t] = "done"
    /\ pc' = [pc EXCEPT ![t] = "idle"]
    /\ req' = [req EXCEPT ![t] = NoRequest]
    /\ user' = [user EXCEPT ![t] = NoUser]
    /\ yielded' = [yielded EXCEPT ![t] = NoSession]
    /\ resp' = [resp EXCEPT ![t] = NoResponse]
    /\ log' = [log EXCEPT ![t] = <<>>]
    /\ stmts' = [stmts EXCEPT ![t] = 0]
    /\ test_session_context' = [test_session_context EXCEPT ![t] = NoSession]
    /\ UNCHANGED <<manager_vars, store_vars>>

Handler(t) ==
    \/ create_user_commit(t)
    \/ create_user_refresh(t)
    \/ get_users(t)
    \/ get_user(t)
    \/ update_user_fetch(t)
    \/ update_user_commit(t)
    \/ update_user_refresh(t)
    \/ delete_user_fetch(t)
    \/ delete_user_commit(t)
    \/ get_db_exit(t)
    \/ finish(t)

(* ------------------------------------------------------------------ *)
(* Spec: the manager from its construction on, every request body of   *)
(* the input sets, one request at a time                               *)
(* ------------------------------------------------------------------ *)
Next ==
    \/ init_db
    \/ close
    \/ AllIdle /\ set_test_session("root", Override)
    \/ AllIdle /\ reset_test_session("root")
    \/ \E r \in Requests : Request("t1", r)
    \/ Handler("t1")

Spec == Init /\ [][Next]_vars

(* ------------------------------------------------------------------ *)
(* SpecConcurrent: the application after startup() has returned, two   *)
(* request tasks interleaved at every await, valid bodies              *)
(* ------------------------------------------------------------------ *)
ConcurrentRequests ==
    {r \in Requests : /\ Validate(r) = "ok"
                      /\ r.user_id <= MaxId
                      /\ r.payload.email \in {Absent, Val(E1), Val(E2)}}

InitServing ==
    /\ engine = "engine"
    /\ session_maker = "sessionmaker"
    /\ session = "scoped_session"
    /\ test_session_context = [c \in Contexts |-> NoSession]
    /\ lifecycle = "Ready"
    /\ manager_result = "init_db returned"
    /\ users = <<>>
    /\ next_id = 1
    /\ now = 0
    /\ origin = [i \in Ids |-> NoOrigin]
    /\ pc = [t \in Tasks |-> "idle"]
    /\ req = [t \in Tasks |-> NoRequest]
    /\ user = [t \in Tasks |-> NoUser]
    /\ yielded = [t \in Tasks |-> NoSession]
    /\ resp = [t \in Tasks |-> NoResponse]
    /\ log = [t \in Tasks |-> <<>>]
    /\ stmts = [t \in Tasks |-> 0]

NextConcurrent ==
    \E t \in Tasks :
        \/ \E r \in ConcurrentRequests : Request(t, r)
        \/ Handler(t)

SpecConcurrent == InitServing /\ [][NextConcurrent]_vars

(* ------------------------------------------------------------------ *)
(* SpecOverride: the application after startup(), requests started     *)
(* from the server's context and from a test's context, each context   *)
(* installing and resetting its own override at any moment; one task   *)
(* serves every kind of request, the other reads beside it             *)
(* (tests/conftest.py: the session fixture calls set_test_session, the *)
(* test client runs the application in a task of its own)              *)
(* ------------------------------------------------------------------ *)
OverrideRequests ==
    {r \in ConcurrentRequests : /\ r.user_id <= 1
                                /\ r.payload.email \in {Absent, Val(E1)}}

\* the requests the second task serves beside the first: the reads
ReadRequests == {r \in OverrideRequests : r.op \in {"list", "get"}}

\* the code running in context c: a parent at any time, a request task
\* while its request is being served
Running(c) == c \in Tasks => pc[c] \notin {"idle", "done"}

NextOverride ==
    \/ \E c \in Contexts : Running(c) /\ set_test_session(c, TestSession(c))
    \/ \E c \in Contexts : Running(c) /\ reset_test_session(c)
    \/ \E c \in Parents, r \in OverrideRequests : RequestFrom(c, "t1", r)
    \/ \E c \in Parents, r \in ReadRequests : RequestFrom(c, "t2", r)
    \/ \E t \in Tasks : Handler(t)

SpecOverride == InitServing /\ [][NextOverride]_vars

(* ------------------------------------------------------------------ *)
(* Properties                                                          *)
(* ------------------------------------------------------------------ *)
\* task t takes a step of its request
Steps(t) == pc'[t] # pc[t]

\* the response of task t is fixed and the handler's frame still stands
Answered(t) == pc[t] = "exit"

UniqueEmails ==
    \A i, j \in 1..Len(users) : users[i].email = users[j].email => i = j

\* the commit task t is about to issue would give its record an email that
\* another record holds
WouldCollide(t) ==
    \/ /\ At(t, "create", "commit")
       /\ EmailTaken(UserCreate(req[t].payload).email.v, 0)
    \/ /\ At(t, "update", "commit")
       /\ user[t].id \in RowIds
       /\ "email" \in user[t].dirty
       /\ EmailTaken(UserUpdate(req[t].payload).email.v, user[t].id)

ConflictAnswered(t) ==
    (WouldCollide(t) /\ Steps(t)) =>
        /\ users' = users
        /\ pc'[t] = "exit"
        /\ resp'[t].raised = "HTTPException"
        /\ \/ resp'[t].exc = "IntegrityError" /\ resp'[t].status = 400
           \/ resp'[t].exc = "SQLAlchemyError" /\ resp'[t].status = 500

\* C1: in every interleaving of creates, updates and deletes no two stored
\* records have the same email; a commit that would give a record an email
\* held by another record leaves the table as it was and ends the handler
\* with an HTTPException: 400 for the uniqueness violation (IntegrityError),
\* 500 only when the storage failed otherwise.
C1_EmailUniqueness ==
    /\ []UniqueEmails
    /\ [][\A t \in Tasks : ConflictAnswered(t)]_vars

\* two creates of one email in flight together: one is stored, the other is
\* answered 400
C1_Witness ==
    \E t, u \in Tasks :
        /\ t # u
        /\ req[t].op = "create" /\ req[u].op = "create"
        /\ UserCreate(req[t].payload).email = UserCreate(req[u].payload).email
        /\ pc[t] = "refresh"
        /\ Answered(u) /\ resp[u].status = 400 /\ resp[u].exc = "IntegrityError"
        /\ Len(users) = 1

\* get-by-id answered 200 for a record that no UPDATE or DELETE has reached
\* since the create that stored it
RoundTripCase(t) ==
    /\ Answered(t)
    /\ req[t].op = "get"
    /\ resp[t].status = 200
    /\ ~origin[req[t].user_id].touched

NoCredentials(read) == DOMAIN read \cap {"salt", "password"} = {}

\* C2 as written: create with payload P, then get-by-id with no mutation in
\* between, returns 200 with first_name, last_name and email equal to P's
\* and neither salt nor password.
C2_RoundTripAsWritten ==
    \A t \in Tasks : RoundTripCase(t) =>
        LET P == origin[req[t].user_id].payload
            read == resp[t].body[1]
        IN  /\ Len(resp[t].body) = 1
            /\ read.first_name = P.first_name.v
            /\ read.last_name = P.last_name.v
            /\ read.email = P.email.v
            /\ NoCredentials(read)

\* C2 as amended: create with payload P, then get-by-id with no mutation in
\* between, returns 200 with first_name and last_name equal to P's, email
\* equal to P's email with its domain part lower-cased, and neither salt nor
\* password.
C2_RoundTrip ==
    \A t \in Tasks : RoundTripCase(t) =>
        LET P == origin[req[t].user_id].payload
            read == resp[t].body[1]
            at == CHOOSE i \in 1..Len(P.email.v) : P.email.v[i] = "@"
        IN  /\ Len(resp[t].body) = 1
            /\ read.id = req[t].user_id
            /\ read.first_name = P.first_name.v
            /\ read.last_name = P.last_name.v
            /\ Len(read.email) = Len(P.email.v)
            /\ \A i \in 1..Len(P.email.v) :
                  read.email[i] = IF i > at THEN LowerChar(P.email.v[i]) ELSE P.email.v[i]
            /\ NoCredentials(read)

\* the record was created with an upper-case letter in the email's domain
C2_Witness ==
    \E t \in Tasks : RoundTripCase(t) /\ origin[req[t].user_id].payload.email = Val(E1U)

\* the SELECT of a handler that names an identity no record has
MissesRecord(t) ==
    /\ pc[t] = "fetch"
    /\ req[t].op \in {"get", "update", "delete"}
    /\ req[t].user_id \notin RowIds

NotFoundAnswered(t) ==
    (MissesRecord(t) /\ Steps(t)) =>
        /\ users' = users
        /\ pc'[t] = "exit"
        /\ \/ resp'[t].status = 404 /\ resp'[t].raised = "HTTPException"
           \/ resp'[t].exc = "SQLAlchemyError" /\ resp'[t].raised = "unhandled"

\* C3: get-by-id, update (with a body that passed validation) and delete on an
\* identity no stored record has answer 404 and leave the table as it was;
\* the only other outcome is that the SELECT itself fails.
C3_NotFoundSymmetry == [][\A t \in Tasks : NotFoundAnswered(t)]_vars

\* PUT on an unknown identity, with records stored, answered 404
C3_Witness ==
    \E t \in Tasks :
        /\ Answered(t) /\ req[t].op = "update"
        /\ resp[t].status = 404
        /\ Len(users) > 0 /\ req[t].user_id \notin RowIds

ListAnswered(t) ==
    (At(t, "list", "fetch") /\ Steps(t)) =>
        \/ resp'[t].exc = "SQLAlchemyError" /\ resp'[t].raised = "unhandled"
        \/ /\ Len(users) = 0
           /\ resp'[t].status = 404
        \/ /\ Len(users) > 0
           /\ resp'[t].status = 200
           /\ Len(resp'[t].body) = Len(users)
           /\ {resp'[t].body[i].id : i \in 1..Len(users)} = RowIds
           /\ \A i \in 1..Len(users) :
                 LET read == resp'[t].body[i]
                     row == RowOf(read.id)
                 IN  /\ read.first_name = row.first_name
                     /\ read.last_name = row.last_name
                     /\ read.email = row.email
                     /\ NoCredentials(read)

\* C4: list answers 404 exactly when the table is empty; with at least one
\* record it answers 200 with one Read projection for every stored record
\* and no others (unless the SELECT itself fails).
C4_EmptyCollectionPolicy == [][\A t \in Tasks : ListAnswered(t)]_vars

C4_Witness ==
    \E t \in Tasks :
        /\ Answered(t) /\ req[t].op = "list"
        /\ resp[t].status = 200 /\ Len(resp[t].body) = 2

\* C5: a list answered 200 holds the records in creation order, that is by
\* ascending id (the sequence hands ids out in creation order).
C5_ListInCreationOrder ==
    \A t \in Tasks :
        (Answered(t) /\ req[t].op = "list" /\ resp[t].status = 200) =>
            \A i, j \in 1..Len(resp[t].body) :
                i < j => resp[t].body[i].id < resp[t].body[j].id

\* the declared constraint of one field, on a string
DeclaredOk(a, value) ==
    CASE a \in {"first_name", "last_name"} ->
            /\ Len(value) >= MinNameLen /\ Len(value) <= MaxNameLen
            /\ \A i \in 1..Len(value) : IsAlphaChar(value[i])
      [] a = "email" -> EmailSyntaxOk(value)
      [] OTHER ->
            /\ Len(value) >= MinPasswordLen /\ Len(value) <= MaxPasswordLen
            /\ \E i \in 1..Len(value) : IsDigitChar(value[i])
            /\ \E i \in 1..Len(value) : IsUpperChar(value[i])

Fields == {"first_name", "last_name", "email", "password"}

\* some field carries a string that breaks its declared constraint
ViolatesConstraint(p) == \E a \in Fields : p[a].tag = "val" /\ ~DeclaredOk(a, p[a].v)

\* Create: all four fields, each within its constraint.
\* Update: every field either absent or within its constraint.
SatisfiesConstraints(op, p) ==
    \A a \in Fields :
        \/ p[a].tag = "val" /\ DeclaredOk(a, p[a].v)
        \/ op = "update" /\ p[a].tag = "absent"

\* an Update body with some fields present and the others absent
PartialBody(p) ==
    /\ SatisfiesConstraints("update", p)
    /\ \E a \in Fields : p[a].tag = "absent"
    /\ \E a \in Fields : p[a].tag = "val"

PartialUpdateCase(t) ==
    /\ Answered(t)
    /\ req[t].op = "update"
    /\ PartialBody(req[t].payload)
    /\ req[t].user_id \in RowIds
    /\ req[t].payload.email.tag = "val" =>
          ~EmailTaken(EmailStr(req[t].payload.email.v), req[t].user_id)

\* the UPDATE of task t leaves every attribute whose field is absent as it was
AbsentFieldsKept(t) ==
    (At(t, "update", "commit") /\ Steps(t) /\ user[t].id \in RowIds) =>
        /\ user[t].id \in {users'[i].id : i \in 1..Len(users')}
        /\ LET old == RowOf(user[t].id)
               new == users'[CHOOSE i \in 1..Len(users') : users'[i].id = user[t].id]
               p == req[t].payload
           IN  /\ \A a \in {"first_name", "last_name", "email"} :
                     p[a].tag = "absent" => new[a] = old[a]
               /\ p.password.tag = "absent" =>
                     new.salt = old.salt /\ new.password = old.password

\* C6: for an existing record, an Update body with only some fields present
\* is answered 200 and the record's email is the body's when it carries one;
\* the UPDATE leaves every absent field's attribute as it was.
C6_PartialUpdate ==
    /\ [](\A t \in Tasks : PartialUpdateCase(t) =>
            /\ resp[t].status = 200
            /\ req[t].payload.email.tag = "val" =>
                  RowOf(req[t].user_id).email = EmailStr(req[t].payload.email.v))
    /\ [][\A t \in Tasks : AbsentFieldsKept(t)]_vars

IdsOf(rows) == {rows[i].id : i \in 1..Len(rows)}
RowsOf(rows) == {rows[i] : i \in 1..Len(rows)}

\* the DELETE of task t removes the record it loaded and no other
DeleteRemovesExactly(t) ==
    (At(t, "delete", "commit") /\ Steps(t)) =>
        /\ pc'[t] = "exit"
        /\ \/ /\ resp'[t].status = 204
              /\ RowsOf(users') = {row \in RowsOf(users) : row.id # user[t].id}
              /\ Len(users') = Cardinality(RowIds \ {user[t].id})
           \/ /\ resp'[t].status = 500 /\ resp'[t].exc = "SQLAlchemyError"
              /\ users' = users

\* an identity that was handed out and is stored no more
Gone(id) == id < next_id /\ id \notin RowIds

NeverReappears == \A id \in Ids : Gone(id) => id \notin IdsOf(users')

\* C7: a delete that reaches its commit answers 204 and removes exactly the
\* loaded record (or fails with 500 and removes nothing); an identity once
\* removed is never stored again, and every later SELECT by it answers 404.
C7_DeleteIrreversible ==
    [][/\ \A t \in Tasks : DeleteRemovesExactly(t) /\ NotFoundAnswered(t)
       /\ NeverReappears]_vars

\* get-by-id on a deleted identity answers 404 while a record created after
\* the delete is stored
C7_Witness ==
    \E t \in Tasks :
        /\ Answered(t) /\ req[t].op = "get" /\ resp[t].status = 404
        /\ Gone(req[t].user_id)
        /\ \E id \in RowIds : id > req[t].user_id

\* C8: a Create or Update body that breaks a declared constraint is answered
\* 422 with no statement sent to the store; a body that satisfies all of them
\* is never answered 422.
C8_ValidationPrecedesStorage ==
    \A t \in Tasks :
        (Answered(t) /\ req[t].op \in {"create", "update"}) =>
            /\ ViolatesConstraint(req[t].payload) =>
                  resp[t].status = 422 /\ stmts[t] = 0
            /\ SatisfiesConstraints(req[t].op, req[t].payload) =>
                  resp[t].status # 422

\* C9: get_db yields a session only while the manager is Ready; close()
\* returns normally only from Ready and init_db() only from Uninitialized.
C9_ManagerLifecycle ==
    /\ [](\A t \in Tasks : yielded[t] # NoSession => lifecycle = "Ready")
    /\ [][/\ (close /\ lifecycle # "Ready") => manager_result' # "close returned"
          /\ (init_db /\ lifecycle # "Uninitialized") =>
                manager_result' # "init_db returned"]_vars

\* the rollback() and close() calls get_db made on the session it yielded
ReleaseCalls(t) ==
    LET mine == SelectSeq(log[t], LAMBDA c : c.on = yielded[t])
    IN  [i \in 1..Len(mine) |-> mine[i].call]

\* C10: when a request whose handler ran is over, the session get_db yielded
\* to the handler (the override when one is active) was rolled back and then
\* closed if the handler raised, and closed, once, if it did not.
C10_UnitOfWorkReleased ==
    \A t \in Tasks :
        (pc[t] = "done" /\ yielded[t] # NoSession /\ Validate(req[t]) = "ok") =>
            ReleaseCalls(t) = IF Raised(resp[t]) THEN <<"rollback", "close">>
                              ELSE <<"close">>

\* an override is seen only where it was installed: a parent context holds
\* no session but its own, a request task neither holds nor was yielded the
\* session installed in the other request task
OverrideStaysInContext ==
    /\ \A c \in Parents : test_session_context[c] \in {NoSession, TestSession(c)}
    /\ \A t \in Tasks : \A u \in Tasks \ {t} :
          /\ test_session_context[t] # TestSession(u)
          /\ yielded[t] # TestSession(u)

\* get_db of a request started from context c yields the override active in
\* c, and the task's pooled session when none is
YieldsOverrideOfCaller ==
    \A c \in Parents, t \in Tasks, r \in OverrideRequests :
        RequestFrom(c, t, r) =>
            yielded'[t] = IF test_session_context[c] = TestSession(c)
                            THEN TestSession(c) ELSE Pooled(t)

\* set and reset act on the calling context and on no other
SetActsOnCaller ==
    \A c \in Contexts :
        /\ set_test_session(c, TestSession(c)) =>
              test_session_context' =
                  [test_session_context EXCEPT ![c] = TestSession(c)]
        /\ reset_test_session(c) =>
              test_session_context' = [test_session_context EXCEPT ![c] = NoSession]

\* C11: an override installed in one context is never seen by get_db in
\* another; get_db yields the caller's override while one is active, and the
\* pooled session otherwise, in particular after reset_test_session.
C11_OverrideIsolation ==
    /\ []OverrideStaysInContext
    /\ [][YieldsOverrideOfCaller /\ SetActsOnCaller]_vars

\* two requests in flight, one yielded the override of the test that started
\* it, the other a pooled session
C11_Witness ==
    /\ yielded["t1"] = TestSession("test")
    /\ yielded["t2"] = Pooled("t2")
    /\ pc["t1"] \in {"fetch", "commit"} /\ pc["t2"] \in {"fetch", "commit"}

\* task t is between get_db's yield and the end of its request
Holds(t) == pc[t] \notin {"idle", "done"} /\ yielded[t] # NoSession

\* from get_db's yield to the end of the request the handler of task t has
\* the session it was yielded, and no other
OneSessionPerHandler ==
    \A t \in Tasks : (Holds(t) /\ pc'[t] # "idle") => yielded'[t] = yielded[t]

\* C12 as stated: no two requests in flight hold the same session, and each
\* handler has one session from entry to exit.
C12_SessionExclusivityAsWritten ==
    /\ [](\A t \in Tasks : \A u \in Tasks \ {t} :
            (Holds(t) /\ Holds(u)) => yielded[t] # yielded[u])
    /\ [][OneSessionPerHandler]_vars

\* C12: no two requests in flight hold the same pooled session (two requests
\* hold the same session only when it is an override), and each handler has
\* one session from entry to exit.
C12_SessionExclusivity ==
    /\ [](\A t \in Tasks : \A u \in Tasks \ {t} :
            (Holds(t) /\ Holds(u) /\ yielded[t].kind = "pooled") =>
                yielded[t] # yielded[u])
    /\ [][OneSessionPerHandler]_vars

\* two requests in flight, each holding a pooled session
C12_Witness ==
    /\ Holds("t1") /\ Holds("t2")
    /\ yielded["t1"].kind = "pooled" /\ yielded["t2"].kind = "pooled"
    /\ pc["t1"] = "commit" /\ pc["t2"] = "fetch"

\* the exceptions the store raises
StorageErrors == {"IntegrityError", "SQLAlchemyError"}

\* C13: a request that ended on a storage failure was answered by its
\* handler with an HTTPException, 400 for a uniqueness violation and 500 for
\* any other failure; the storage exception itself never leaves the handler.
C13_StorageErrorMapping ==
    \A t \in Tasks :
        (Answered(t) /\ resp[t].exc \in StorageErrors) =>
            /\ resp[t].raised = "HTTPException"
            /\ resp[t].status = IF resp[t].exc = "IntegrityError" THEN 400 ELSE 500

\* every stored hash is a hash under the salt stored beside it
PairedCredentials ==
    \A i \in 1..Len(users) :
        users[i].password = hashpw(users[i].password.plain, users[i].salt)

RowAfter(id) == users'[CHOOSE i \in 1..Len(users') : users'[i].id = id]

\* a step writes salt and hash together or neither: a record it inserts has
\* the hash of the Create body's password under the record's salt; a record
\* it keeps has both as before, or a salt no record had and the hash, under
\* it, of the password of the Update body being committed for that record
CredentialsWrittenTogether ==
    \A id \in IdsOf(users') :
        IF id \notin RowIds
          THEN \E t \in Tasks :
                  /\ At(t, "create", "commit") /\ Steps(t)
                  /\ RowAfter(id).password =
                        hashpw(req[t].payload.password.v, RowAfter(id).salt)
          ELSE \/ /\ RowAfter(id).salt = RowOf(id).salt
                  /\ RowAfter(id).password = RowOf(id).password
               \/ /\ RowAfter(id).salt # RowOf(id).salt
                  /\ RowAfter(id).password # RowOf(id).password
                  /\ \A j \in 1..Len(users) : users[j].salt # RowAfter(id).salt
                  /\ \E t \in Tasks :
                        /\ At(t, "update", "commit") /\ Steps(t)
                        /\ user[t].id = id
                        /\ req[t].payload.password.tag = "val"
                        /\ RowAfter(id).password =
                              hashpw(req[t].payload.password.v, RowAfter(id).salt)

\* C14: every stored hash is the hash of the last supplied password under
\* the record's current salt; salt and hash change together, on a create or
\* an update carrying a password, to a fresh salt and its hash, and stay as
\* they are on every other step.
C14_CredentialPairing ==
    /\ []PairedCredentials
    /\ [][CredentialsWrittenTogether]_vars

\* a record whose password an update replaced: its salt is the one drawn at
\* the update, not the one drawn when it was created
C14_Witness ==
    \E i \in 1..Len(users) :
        /\ users[i].updated_at > users[i].created_at
        /\ users[i].salt = gensalt(users[i].updated_at)
        /\ users[i].password.plain # origin[users[i].id].payload.password.v

====
